---- MODULE Spec2Model ----
(***************************************************************************)
(* State machines of two components of the inference runtime:              *)
(*   - beanmachine::graph::GlobalState (global_state.cpp): the support,    *)
(*     the stochastic/deterministic partition, the flattened view of the   *)
(*     unconstrained values and the backup/revert operations;              *)
(*   - beanmachine::minibmg::out_nodes (out_nodes.cpp): the consumer       *)
(*     index of a minibmg graph.                                           *)
(* Doubles are modelled with a short significand, so that an addition      *)
(* rounds as a double addition does, only sooner.                          *)
(***************************************************************************)
EXTENDS Integers, Sequences, FiniteSets, TLC

VARIABLES
  graph,                \* GlobalState::graph: the nodes' fixed part and the queries
  node,                 \* the nodes' mutable fields: value, unconstrained_value, back_grad1
  constructed,          \* whether the constructor has run
  ordered_support,
  stochastic_nodes,
  deterministic_nodes,
  flat_size,
  stochastic_unconstrained_vals_backup,
  stochastic_unconstrained_grads_backup,
  log_prob,
  last,                 \* history: the last operation called and how it ended
  hist_unc,             \* history: the unconstrained values read at the last value backup
  hist_grad,            \* history: the gradients read at the last gradient backup
  txn,                  \* history: position in backup .. mutate .. revert
  hist_obs,             \* history: what a sampler could observe when the backups were taken
  trail,                \* history: the call before the last one, and what the last one wrote
  mini_nodes,           \* minibmg: the nodes alive, by identity (what a Nodep points to)
  mini_graphs,          \* minibmg: the Graph instances, each the sequence of its nodes
  out_nodes_property,   \* minibmg: per Graph instance, the Out_Nodes_Data its property holds
  creates,              \* history: per Graph instance, the runs of Out_Nodes_Property::create
  out_call              \* history: the last out_nodes call and what it returned

gs_vars == <<graph, node, constructed, ordered_support, stochastic_nodes,
             deterministic_nodes, flat_size, stochastic_unconstrained_vals_backup,
             stochastic_unconstrained_grads_backup, log_prob>>
hist_vars == <<last, hist_unc, hist_grad, txn, hist_obs, trail>>
minibmg_vars == <<mini_nodes, mini_graphs, out_nodes_property, creates, out_call>>
vars == <<gs_vars, hist_vars, minibmg_vars>>

---------------------------------------------------------------------------
(* Bounds of the model. *)

\* Bits of the significand of a modelled double (a double has 53).
SignificandBits == 2
\* Largest magnitude an unconstrained element may take in a run.
MaxAbs == 4
\* Seeds the constructor is tried with.
MaxSeed == 0
\* Nodes of an enumerated graph.
MaxGraphNodes == 3
\* Nodes alive in a minibmg run.
MaxMiniNodes == 3
\* The count of the runs of create stops here.
MaxCreates == 2

---------------------------------------------------------------------------
(* Doubles. *)

Abs(x) == IF x < 0 THEN -x ELSE x

RECURSIVE Pow2(_)
Pow2(n) == IF n = 0 THEN 1 ELSE 2 * Pow2(n - 1)

\* Distance between neighbouring doubles at magnitude a.
RECURSIVE Ulp(_)
Ulp(a) == IF a < Pow2(SignificandBits) THEN 1 ELSE 2 * Ulp(a \div 2)

\* Round to nearest, ties to the even significand.
RoundMag(a) ==
  LET u == Ulp(a)
      lo == (a \div u) * u
      hi == lo + u
  IN  IF a = lo THEN a
      ELSE IF 2 * (a - lo) < u THEN lo
      ELSE IF 2 * (a - lo) > u THEN hi
      ELSE IF (lo \div u) % 2 = 0 THEN lo ELSE hi

Round(x) == IF x < 0 THEN -RoundMag(-x) ELSE RoundMag(x)

\* What a read of storage that was never written yields: a value outside the
\* doubles of any run.
Uninit == -(1000 * 1000)

\* operator+ of two doubles.
FAdd(a, b) == IF a = Uninit \/ b = Uninit THEN Uninit ELSE Round(a + b)

RECURSIVE FSum(_)
FSum(s) == IF s = <<>> THEN 0 ELSE FAdd(FSum(SubSeq(s, 1, Len(s) - 1)), s[Len(s)])

---------------------------------------------------------------------------
(* NodeValue and the gradient accumulator. *)

NoMatrix == [rows |-> 0, cols |-> 0, data |-> <<>>]

MatrixOf(r, c, data) == [rows |-> r, cols |-> c, data |-> data]

\* Eigen's size(): rows * cols, the length of the storage.
MatrixSize(m) == Len(m.data)

ScalarType == [variable_type |-> "SCALAR", rows |-> 0, cols |-> 0]

MatrixType(r, c) == [variable_type |-> "MATRIX", rows |-> r, cols |-> c]

ScalarValue(d) == [type |-> ScalarType, _double |-> d, _matrix |-> NoMatrix]

MatrixValue(r, c, data) ==
  [type |-> MatrixType(r, c), _double |-> 0, _matrix |-> MatrixOf(r, c, data)]

ZeroValue(t) ==
  IF t.variable_type = "SCALAR" THEN ScalarValue(0)
  ELSE MatrixValue(t.rows, t.cols, [k \in 1..(t.rows * t.cols) |-> 0])

ZeroGrad == [_double |-> 0, _matrix |-> NoMatrix]

\* The elements of a value in storage order.
Elements(v) == IF v.type.variable_type = "SCALAR" THEN <<v._double>> ELSE v._matrix.data

---------------------------------------------------------------------------
(* The transform of a stochastic operator. *)

\* constrained -> unconstrained, one element
TransformForward(x) == -x
\* unconstrained -> constrained, one element
TransformInverse(u) == -u

\* Transform::operator()(value, unconstrained_value)
ForwardValue(value, unc) ==
  IF value.type.variable_type = "SCALAR"
  THEN [unc EXCEPT !.type = value.type, !._double = TransformForward(value._double)]
  ELSE [unc EXCEPT !.type = value.type,
                   !._matrix = [value._matrix EXCEPT !.data =
                       [k \in 1..Len(value._matrix.data) |->
                           TransformForward(value._matrix.data[k])]]]

\* Transform::inverse(value, unconstrained_value)
InverseValue(value, unc) ==
  IF value.type.variable_type = "SCALAR"
  THEN [value EXCEPT !._double = TransformInverse(unc._double)]
  ELSE [value EXCEPT !._matrix = [unc._matrix EXCEPT !.data =
                       [k \in 1..Len(unc._matrix.data) |->
                           TransformInverse(unc._matrix.data[k])]]]

---------------------------------------------------------------------------
(* The graph: the nodes' fixed part. *)

GraphNode(nt, sto, ins, obs, tr, ty) ==
  [node_type |-> nt, is_stochastic |-> sto, in_nodes |-> ins, is_observed |-> obs,
   transform_type |-> tr, type |-> ty]

NodeIds(g) == 1..Len(g.nodes)

\* Node::is_stochastic()
IsStochastic(g, n) == g.nodes[n].is_stochastic

InputSet(g, n) == {g.nodes[n].in_nodes[k] : k \in 1..Len(g.nodes[n].in_nodes)}

\* A scalar with a transform and a row matrix (1 x 2) without one feed a sum that an
\* observed sample depends on; node 6 is outside the support.
GraphRow ==
  [nodes |-> <<
     GraphNode("CONSTANT", FALSE, <<>>, FALSE, "NONE", ScalarType),
     GraphNode("OPERATOR", TRUE, <<1>>, FALSE, "LOG", ScalarType),
     GraphNode("OPERATOR", TRUE, <<1>>, FALSE, "NONE", MatrixType(1, 2)),
     GraphNode("OPERATOR", FALSE, <<2, 3>>, FALSE, "NONE", ScalarType),
     GraphNode("OPERATOR", TRUE, <<4>>, TRUE, "NONE", ScalarType),
     GraphNode("OPERATOR", TRUE, <<1>>, FALSE, "NONE", ScalarType) >>,
   queries |-> {4}]

\* Shapes scalar, 3-vector, scalar: the column has a transform; a factor observes
\* their sum.
GraphColumn ==
  [nodes |-> <<
     GraphNode("OPERATOR", TRUE, <<>>, FALSE, "NONE", ScalarType),
     GraphNode("OPERATOR", TRUE, <<1>>, FALSE, "LOG", MatrixType(3, 1)),
     GraphNode("OPERATOR", TRUE, <<1>>, FALSE, "NONE", ScalarType),
     GraphNode("OPERATOR", FALSE, <<2, 3>>, FALSE, "NONE", ScalarType),
     GraphNode("FACTOR", TRUE, <<4>>, TRUE, "NONE", ScalarType) >>,
   queries |-> {3}]

SamplerGraphs == {GraphRow, GraphColumn}

\* The nodes' fields before any GlobalState exists: an observed node holds its
\* observation, a constant its constant, every other node zeros.
InitialNode(g, n) ==
  LET s == g.nodes[n]
      z == ZeroValue(s.type)
      v == IF s.type.variable_type = "SCALAR" /\ (s.is_observed \/ s.node_type = "CONSTANT")
           THEN ScalarValue(IF s.is_observed THEN 2 ELSE 1)
           ELSE z
  IN  [value |-> v, unconstrained_value |-> z, back_grad1 |-> ZeroGrad]

InitialNodes(g) == [n \in NodeIds(g) |-> InitialNode(g, n)]

---------------------------------------------------------------------------
(* StochasticOperator's accessors. *)

\* get_unconstrained_value(false): the value itself when there is no transform
GetUnconstrainedValue(g, ns, n) ==
  IF g.nodes[n].transform_type = "NONE" THEN ns[n].value ELSE ns[n].unconstrained_value

\* *get_unconstrained_value(false) = v
PutUnconstrainedValue(g, ns, n, v) ==
  IF g.nodes[n].transform_type = "NONE"
  THEN [ns EXCEPT ![n].value = v]
  ELSE [ns EXCEPT ![n].unconstrained_value = v]

\* get_unconstrained_value(true)
SyncUnconstrainedValue(g, ns, n) ==
  IF g.nodes[n].transform_type = "NONE" THEN ns
  ELSE [ns EXCEPT ![n].unconstrained_value =
                     ForwardValue(ns[n].value, ns[n].unconstrained_value)]

\* get_original_value(true)
SyncOriginalValue(g, ns, n) ==
  IF g.nodes[n].transform_type = "NONE" THEN ns
  ELSE [ns EXCEPT ![n].value = InverseValue(ns[n].value, ns[n].unconstrained_value)]

---------------------------------------------------------------------------
(* Graph's services. *)

RECURSIVE Ancestors(_, _)
Ancestors(g, S) ==
  LET T == S \cup UNION {InputSet(g, n) : n \in S}
  IN  IF T = S THEN S ELSE Ancestors(g, T)

\* Graph::compute_support()
ComputeSupport(g) ==
  Ancestors(g, {n \in NodeIds(g) : g.nodes[n].is_observed} \cup g.queries)

\* The draw of the generator for element k of node n.
Draw(seed, n, k) == 1 + ((seed + n + k) % 2)

\* Node::eval(gen)
EvalNode(g, ns, n, seed) ==
  LET s == g.nodes[n]
  IN  IF s.node_type = "CONSTANT" THEN ns[n].value
      ELSE IF s.is_stochastic
      THEN IF s.type.variable_type = "SCALAR"
           THEN ScalarValue(Draw(seed, n, 1))
           ELSE MatrixValue(s.type.rows, s.type.cols,
                            [k \in 1..(s.type.rows * s.type.cols) |-> Draw(seed, n, k)])
      ELSE ScalarValue(FSum([k \in 1..Len(s.in_nodes) |->
                               FSum(Elements(ns[s.in_nodes[k]].value))]))

\* The derivative of the log-density -|x| of one element.
GradOfElement(x) == IF x > 0 THEN -1 ELSE IF x < 0 THEN 1 ELSE 0

\* The gradient of the log-density at a value, element by element.
GradOfValue(v) ==
  IF v.type.variable_type = "SCALAR"
  THEN [_double |-> GradOfElement(v._double), _matrix |-> NoMatrix]
  ELSE [_double |-> 0,
        _matrix |-> [v._matrix EXCEPT !.data =
                       [k \in 1..Len(v._matrix.data) |-> GradOfElement(v._matrix.data[k])]]]

\* Graph::update_backgrad(ordered_support)
UpdateBackgradOf(g, supp, ns) ==
  [n \in DOMAIN ns |->
     IF \E k \in 1..Len(supp) : supp[k] = n
     THEN [ns[n] EXCEPT !.back_grad1 =
             IF g.nodes[n].is_stochastic /\ g.nodes[n].node_type = "OPERATOR"
             THEN GradOfValue(GetUnconstrainedValue(g, ns, n))
             ELSE ZeroGrad]
     ELSE ns[n]]

\* Node::log_prob()
NodeLogProb(v) ==
  LET e == Elements(v) IN FSum([k \in 1..Len(e) |-> -Abs(e[k])])

\* Graph::_full_log_prob(ordered_support): the walk evaluates each deterministic
\* node from its inputs, from position k of the support on
RECURSIVE EvalDeterministicFrom(_, _, _, _)
EvalDeterministicFrom(g, supp, ns, k) ==
  IF k > Len(supp) THEN ns
  ELSE EvalDeterministicFrom(g, supp,
         IF g.nodes[supp[k]].is_stochastic THEN ns
         ELSE [ns EXCEPT ![supp[k]].value = EvalNode(g, ns, supp[k], 0)],
         k + 1)

\* Graph::_full_log_prob(ordered_support): the sum it returns
FullLogProb(g, supp, ns) ==
  FSum([k \in 1..Len(supp) |->
          IF g.nodes[supp[k]].is_stochastic THEN NodeLogProb(ns[supp[k]].value) ELSE 0])

---------------------------------------------------------------------------
(* GlobalState: the pure part of each member function. *)

RECURSIVE SetToSortedSeq(_)
SetToSortedSeq(S) ==
  IF S = {} THEN <<>>
  ELSE LET m == CHOOSE x \in S : \A y \in S : x <= y
       IN  <<m>> \o SetToSortedSeq(S \ {m})

\* The support walked in decreasing node id.
OrderedSupportDescending(g) ==
  LET up == SetToSortedSeq(ComputeSupport(g))
  IN  [i \in 1..Len(up) |-> up[Len(up) + 1 - i]]

\* The constructor's first loop: the support set walked in increasing node id.
OrderedSupportOf(g) == SetToSortedSeq(ComputeSupport(g))

\* The constructor's second loop, from position k of the support on.
RECURSIVE InitValues(_, _, _, _, _)
InitValues(g, supp, ns, k, seed) ==
  IF k > Len(supp) THEN ns
  ELSE LET n == supp[k]
           s == g.nodes[n]
           a == IF ~s.is_observed
                THEN [ns EXCEPT ![n].value = EvalNode(g, ns, n, seed)]
                ELSE ns
           b == IF s.is_stochastic /\ s.node_type = "OPERATOR"
                THEN SyncUnconstrainedValue(g, a, n)
                ELSE a
       IN  InitValues(g, supp, b, k + 1, seed)

\* A test that takes every stochastic node, observed or not.
IsLatentOrObserved(g, n) == g.nodes[n].is_stochastic

\* The test that sends a node to stochastic_nodes.
IsLatent(g, n) == g.nodes[n].is_stochastic /\ ~g.nodes[n].is_observed

\* The test that sends a node to deterministic_nodes.
IsDeterministic(g, n) == ~IsLatent(g, n) /\ ~g.nodes[n].is_stochastic

StochasticNodesOf(g, supp) == SelectSeq(supp, LAMBDA n : IsLatent(g, n))

DeterministicNodesOf(g, supp) == SelectSeq(supp, LAMBDA n : IsDeterministic(g, n))

\* FlatWidth with every value counted as one element.
FlatWidthOne(v) == 1

\* The width of a value in the flattened vector.
FlatWidth(v) == IF v.type.variable_type = "SCALAR" THEN 1 ELSE MatrixSize(v._matrix)

\* The constructor's loop that computes flat_size, over the first k stochastic nodes.
RECURSIVE FlatSizeOf(_, _, _, _)
FlatSizeOf(g, ns, sto, k) ==
  IF k = 0 THEN 0
  ELSE FlatSizeOf(g, ns, sto, k - 1) + FlatWidth(GetUnconstrainedValue(g, ns, sto[k]))

\* A backup of the values that keeps the old snapshot.
BackupValuesKept(g, ns, sto, backup) == backup

\* backup_unconstrained_values(): the new backup sequence
BackupValuesOf(g, ns, sto, backup) ==
  [i \in DOMAIN backup |->
     IF i <= Len(sto) THEN GetUnconstrainedValue(g, ns, sto[i]) ELSE backup[i]]

\* A backup of the gradients that keeps the old snapshot.
BackupGradsKept(ns, sto, backup) == backup

\* backup_unconstrained_grads(): the new backup sequence
BackupGradsOf(ns, sto, backup) ==
  [i \in DOMAIN backup |-> IF i <= Len(sto) THEN ns[sto[i]].back_grad1 ELSE backup[i]]

\* RevertValuesFrom without the call of get_original_value(true).
RECURSIVE RevertValuesNoSync(_, _, _, _, _)
RevertValuesNoSync(g, ns, sto, backup, i) ==
  IF i > Len(sto) THEN ns
  ELSE RevertValuesNoSync(g, PutUnconstrainedValue(g, ns, sto[i], backup[i]),
                          sto, backup, i + 1)

\* revert_unconstrained_values(): the loop from stochastic node i on
RECURSIVE RevertValuesFrom(_, _, _, _, _)
RevertValuesFrom(g, ns, sto, backup, i) ==
  IF i > Len(sto) THEN ns
  ELSE LET a == PutUnconstrainedValue(g, ns, sto[i], backup[i])
           b == SyncOriginalValue(g, a, sto[i])
       IN  RevertValuesFrom(g, b, sto, backup, i + 1)

\* RevertGradsFrom with a loop that stops one node early.
RECURSIVE RevertGradsButLast(_, _, _, _)
RevertGradsButLast(ns, sto, backup, i) ==
  IF i >= Len(sto) THEN ns
  ELSE RevertGradsButLast([ns EXCEPT ![sto[i]].back_grad1 = backup[i]], sto, backup, i + 1)

\* revert_unconstrained_grads(): the loop from stochastic node i on
RECURSIVE RevertGradsFrom(_, _, _, _)
RevertGradsFrom(ns, sto, backup, i) ==
  IF i > Len(sto) THEN ns
  ELSE RevertGradsFrom([ns EXCEPT ![sto[i]].back_grad1 = backup[i]], sto, backup, i + 1)

\* flattened[j], 0-based; a read past the end yields no initialised double
At(v, j) == IF j + 1 \in 1..Len(v) THEN v[j + 1] ELSE Uninit

\* flattened.segment(i, n)
Segment(v, i, n) == [k \in 1..n |-> At(v, i + k - 1)]

\* flattened.segment(i, Len(data)) = data
WriteSegment(out, i, data) ==
  [j \in 1..Len(out) |-> IF j > i /\ j <= i + Len(data) THEN data[j - i] ELSE out[j]]

\* get_flattened_unconstrained_values: the loop from stochastic node k, offset i
RECURSIVE FlattenValuesFrom(_, _, _, _, _, _)
FlattenValuesFrom(g, ns, sto, out, k, i) ==
  IF k > Len(sto) THEN out
  ELSE LET value == GetUnconstrainedValue(g, ns, sto[k])
       IN  IF value.type.variable_type = "SCALAR"
           THEN FlattenValuesFrom(g, ns, sto, WriteSegment(out, i, <<value._double>>),
                                  k + 1, i + 1)
           ELSE FlattenValuesFrom(g, ns, sto, WriteSegment(out, i, value._matrix.data),
                                  k + 1, i + MatrixSize(value._matrix))

\* get_flattened_unconstrained_values(flattened_values)
GetFlattenedUnconstrainedValues(g, ns, sto, fs) ==
  FlattenValuesFrom(g, ns, sto, [j \in 1..fs |-> Uninit], 1, 0)

\* The loop of get_flattened_unconstrained_grads reading back_grad1._double of every
\* node, one element per node.
RECURSIVE FlattenGradsAsScalars(_, _, _, _, _)
FlattenGradsAsScalars(ns, sto, out, k, i) ==
  IF k > Len(sto) THEN out
  ELSE FlattenGradsAsScalars(ns, sto,
         WriteSegment(out, i, <<ns[sto[k]].back_grad1._double>>), k + 1, i + 1)

\* get_flattened_unconstrained_grads: the loop from stochastic node k, offset i;
\* the branch is chosen by the type tag of node->value
RECURSIVE FlattenGradsFrom(_, _, _, _, _)
FlattenGradsFrom(ns, sto, out, k, i) ==
  IF k > Len(sto) THEN out
  ELSE LET nd == ns[sto[k]]
       IN  IF nd.value.type.variable_type = "SCALAR"
           THEN FlattenGradsFrom(ns, sto, WriteSegment(out, i, <<nd.back_grad1._double>>),
                                 k + 1, i + 1)
           ELSE FlattenGradsFrom(ns, sto, WriteSegment(out, i, nd.back_grad1._matrix.data),
                                 k + 1, i + MatrixSize(nd.back_grad1._matrix))

\* get_flattened_unconstrained_grads(flattened_grad)
GetFlattenedUnconstrainedGrads(ns, sto, fs) ==
  FlattenGradsFrom(ns, sto, [j \in 1..fs |-> Uninit], 1, 0)

\* SizeMismatch that lets a vector that is too long through.
SizeTooShort(len, fs) == len < fs

\* The size check of set_flattened_unconstrained_values and of
\* add_to_stochastic_unconstrained_nodes.
SizeMismatch(len, fs) == len # fs

\* _matrix = flattened.segment(i, n): a dynamic matrix takes the shape of what is
\* assigned to it, and a segment of a vector is a column.
AssignSegment(m, seg) == MatrixOf(Len(seg), 1, seg)

\* The loop of set_flattened_unconstrained_values without its call of
\* get_original_value(true).
RECURSIVE UnflattenNoSync(_, _, _, _, _, _)
UnflattenNoSync(g, ns, sto, flat, k, i) ==
  IF k > Len(sto) THEN ns
  ELSE LET n == sto[k]
           value == GetUnconstrainedValue(g, ns, n)
           scalar == value.type.variable_type = "SCALAR"
           w == IF scalar THEN 1 ELSE MatrixSize(value._matrix)
           v2 == IF scalar
                 THEN [value EXCEPT !._double = At(flat, i)]
                 ELSE [value EXCEPT !._matrix = AssignSegment(value._matrix,
                                                              Segment(flat, i, w))]
       IN  UnflattenNoSync(g, PutUnconstrainedValue(g, ns, n, v2), sto, flat, k + 1, i + w)

\* set_flattened_unconstrained_values: the loop from stochastic node k, offset i
RECURSIVE UnflattenValuesFrom(_, _, _, _, _, _)
UnflattenValuesFrom(g, ns, sto, flat, k, i) ==
  IF k > Len(sto) THEN ns
  ELSE LET n == sto[k]
           value == GetUnconstrainedValue(g, ns, n)
           scalar == value.type.variable_type = "SCALAR"
           w == IF scalar THEN 1 ELSE MatrixSize(value._matrix)
           v2 == IF scalar
                 THEN [value EXCEPT !._double = At(flat, i)]
                 ELSE [value EXCEPT !._matrix = AssignSegment(value._matrix,
                                                              Segment(flat, i, w))]
           a == PutUnconstrainedValue(g, ns, n, v2)
           b == IF g.nodes[n].transform_type # "NONE" THEN SyncOriginalValue(g, a, n) ELSE a
       IN  UnflattenValuesFrom(g, b, sto, flat, k + 1, i + w)

\* set_flattened_unconstrained_values(flattened_values), past its size check
SetFlattenedUnconstrainedValues(g, ns, sto, flat) ==
  UnflattenValuesFrom(g, ns, sto, flat, 1, 0)

\* flattened_values + increment
VectorAdd(a, b) == [j \in 1..Len(a) |-> FAdd(a[j], At(b, j - 1))]

\* AddToStochasticUnconstrainedNodes that writes the increment, not the sum.
AddOverwrites(g, ns, sto, fs, increment) ==
  SetFlattenedUnconstrainedValues(g, ns, sto, increment)

\* add_to_stochastic_unconstrained_nodes(increment), past its size check
AddToStochasticUnconstrainedNodes(g, ns, sto, fs, increment) ==
  LET flattened_values == GetFlattenedUnconstrainedValues(g, ns, sto, fs)
      sum == VectorAdd(flattened_values, increment)
  IN  SetFlattenedUnconstrainedValues(g, ns, sto, sum)

---------------------------------------------------------------------------
(* Inputs of the operations. *)

Ramp(n) == [i \in 1..n |-> i - 1]
Fill(n, c) == [i \in 1..n |-> c]

\* Lengths tried: the right one, one short, one long.
Lengths(fs) == {n \in {fs - 1, fs, fs + 1} : n >= 0}

SetInputs(fs) == {Ramp(n) : n \in Lengths(fs)}

IncrementInputs(fs) == {Fill(n, 2) : n \in Lengths(fs)}

Seeds == 0..MaxSeed

InRange(flat) == \A j \in 1..Len(flat) : flat[j] # Uninit /\ Abs(flat[j]) <= MaxAbs

---------------------------------------------------------------------------
(* History. *)

\* The unconstrained values of the stochastic nodes, read from the nodes.
UncNow(g, ns, sto) == [i \in 1..Len(sto) |-> GetUnconstrainedValue(g, ns, sto[i])]

GradNow(ns, sto) == [i \in 1..Len(sto) |-> ns[sto[i]].back_grad1]

\* What a sampler can observe of a state.
Observable(g, ns, sto, det, lp) ==
  [unconstrained |-> UncNow(g, ns, sto),
   value |-> [i \in 1..Len(sto) |-> ns[sto[i]].value],
   grad |-> GradNow(ns, sto),
   deterministic |-> [i \in 1..Len(det) |-> ns[det[i]].value],
   log_prob |-> lp]

\* The record of a call: the operation, how it ended, the length of the vector it
\* was given, how many successful increments ran in a row (1 or 2), and whether a
\* set or an increment has succeeded since the last backup of the values.
Called(op, status, len) ==
  [op |-> op, status |-> status, len |-> len,
   rep |-> IF op = "add_to_stochastic_unconstrained_nodes" /\ status = "ok"
              /\ last.op = op /\ last.status = "ok"
           THEN 2 ELSE 1,
   mutated |-> IF op \in {"GlobalState", "backup_unconstrained_values"} THEN FALSE
               ELSE IF status = "ok" /\ op \in {"set_flattened_unconstrained_values",
                                                "add_to_stochastic_unconstrained_nodes"}
               THEN TRUE ELSE last.mutated]

\* A mutation inside backup .. revert keeps the transaction open; elsewhere there is none.
Mutating == IF txn = "open" THEN "open" ELSE "none"

\* The transaction moves to phase t; its snapshot is kept while it lasts.
Phase(t) ==
  /\ txn' = t
  /\ hist_obs' = IF t \in {"open", "values_reverted", "closed"} THEN hist_obs ELSE <<>>

---------------------------------------------------------------------------
(* GlobalState: the operations. *)

\* A constructor that fills the backup sequences before the gradient pass and does
\* not save the gradients again after it.
GlobalStateCtorEarlyBackup(seed) ==
  /\ ~constructed
  /\ LET supp == OrderedSupportOf(graph)
         n1 == InitValues(graph, supp, node, 1, seed)
         n2 == UpdateBackgradOf(graph, supp, n1)
         sto == StochasticNodesOf(graph, supp)
         det == DeterministicNodesOf(graph, supp)
         pushed_vals == [i \in 1..Len(sto) |-> GetUnconstrainedValue(graph, n1, sto[i])]
         pushed_grads == [i \in 1..Len(sto) |-> n1[sto[i]].back_grad1]
     IN  /\ ordered_support' = supp
         /\ node' = EvalDeterministicFrom(graph, supp, n2, 1)
         /\ stochastic_nodes' = sto
         /\ deterministic_nodes' = det
         /\ flat_size' = FlatSizeOf(graph, n2, sto, Len(sto))
         /\ stochastic_unconstrained_vals_backup' = BackupValuesOf(graph, n2, sto, pushed_vals)
         /\ stochastic_unconstrained_grads_backup' = pushed_grads
         /\ log_prob' = FullLogProb(graph, supp, n2)
         /\ hist_unc' = UncNow(graph, n2, sto)
         /\ hist_grad' = pushed_grads
  /\ constructed' = TRUE
  /\ last' = Called("GlobalState", "ok", 0)
  /\ Phase("none")
  /\ UNCHANGED graph

\* GlobalState::GlobalState(g, seed)
GlobalStateCtor(seed) ==
  /\ ~constructed
  /\ LET supp == OrderedSupportOf(graph)
         n1 == InitValues(graph, supp, node, 1, seed)
         n2 == UpdateBackgradOf(graph, supp, n1)
         sto == StochasticNodesOf(graph, supp)
         det == DeterministicNodesOf(graph, supp)
         pushed_vals == [i \in 1..Len(sto) |-> GetUnconstrainedValue(graph, n2, sto[i])]
         pushed_grads == [i \in 1..Len(sto) |-> n2[sto[i]].back_grad1]
     IN  /\ ordered_support' = supp
         /\ node' = EvalDeterministicFrom(graph, supp, n2, 1)
         /\ stochastic_nodes' = sto
         /\ deterministic_nodes' = det
         /\ flat_size' = FlatSizeOf(graph, n2, sto, Len(sto))
         /\ stochastic_unconstrained_vals_backup' = BackupValuesOf(graph, n2, sto, pushed_vals)
         /\ stochastic_unconstrained_grads_backup' = BackupGradsOf(n2, sto, pushed_grads)
         /\ log_prob' = FullLogProb(graph, supp, n2)
         /\ hist_unc' = UncNow(graph, n2, sto)
         /\ hist_grad' = GradNow(n2, sto)
  /\ constructed' = TRUE
  /\ last' = Called("GlobalState", "ok", 0)
  /\ Phase("none")
  /\ UNCHANGED graph

\* One backup that saves the values and the gradients together.
backup_values_and_grads ==
  /\ constructed
  /\ stochastic_unconstrained_vals_backup' =
       BackupValuesOf(graph, node, stochastic_nodes, stochastic_unconstrained_vals_backup)
  /\ stochastic_unconstrained_grads_backup' =
       BackupGradsOf(node, stochastic_nodes, stochastic_unconstrained_grads_backup)
  /\ hist_unc' = UncNow(graph, node, stochastic_nodes)
  /\ last' = Called("backup_unconstrained_values", "ok", 0)
  /\ Phase("values_saved")
  /\ UNCHANGED <<graph, node, constructed, ordered_support, stochastic_nodes,
                 deterministic_nodes, flat_size, log_prob, hist_grad>>

backup_unconstrained_values ==
  /\ constructed
  /\ stochastic_unconstrained_vals_backup' =
       BackupValuesOf(graph, node, stochastic_nodes, stochastic_unconstrained_vals_backup)
  /\ hist_unc' = UncNow(graph, node, stochastic_nodes)
  /\ last' = Called("backup_unconstrained_values", "ok", 0)
  /\ Phase("values_saved")
  /\ UNCHANGED <<graph, node, constructed, ordered_support, stochastic_nodes,
                 deterministic_nodes, flat_size, stochastic_unconstrained_grads_backup,
                 log_prob, hist_grad>>

backup_unconstrained_grads ==
  /\ constructed
  /\ stochastic_unconstrained_grads_backup' =
       BackupGradsOf(node, stochastic_nodes, stochastic_unconstrained_grads_backup)
  /\ hist_grad' = GradNow(node, stochastic_nodes)
  /\ last' = Called("backup_unconstrained_grads", "ok", 0)
  /\ txn' = IF txn = "values_saved" THEN "open" ELSE "none"
  /\ hist_obs' = IF txn = "values_saved"
                 THEN Observable(graph, node, stochastic_nodes, deterministic_nodes, log_prob)
                 ELSE <<>>
  /\ UNCHANGED <<graph, node, constructed, ordered_support, stochastic_nodes,
                 deterministic_nodes, flat_size, stochastic_unconstrained_vals_backup,
                 log_prob, hist_unc>>

revert_unconstrained_values ==
  /\ constructed
  /\ node' = RevertValuesFrom(graph, node, stochastic_nodes,
                              stochastic_unconstrained_vals_backup, 1)
  /\ last' = Called("revert_unconstrained_values", "ok", 0)
  /\ Phase(IF txn = "open" THEN "values_reverted" ELSE "none")
  /\ UNCHANGED <<graph, constructed, ordered_support, stochastic_nodes,
                 deterministic_nodes, flat_size, stochastic_unconstrained_vals_backup,
                 stochastic_unconstrained_grads_backup, log_prob, hist_unc, hist_grad>>

revert_unconstrained_grads ==
  /\ constructed
  /\ node' = RevertGradsFrom(node, stochastic_nodes,
                             stochastic_unconstrained_grads_backup, 1)
  /\ last' = Called("revert_unconstrained_grads", "ok", 0)
  /\ Phase(IF txn = "values_reverted" THEN "closed" ELSE "none")
  /\ UNCHANGED <<graph, constructed, ordered_support, stochastic_nodes,
                 deterministic_nodes, flat_size, stochastic_unconstrained_vals_backup,
                 stochastic_unconstrained_grads_backup, log_prob, hist_unc, hist_grad>>

\* The throw of a size check: nothing is written.
Rejected(op, len) ==
  /\ last' = Called(op, "invalid_argument", len)
  /\ UNCHANGED <<gs_vars, hist_unc, hist_grad, txn, hist_obs>>

set_flattened_unconstrained_values(flattened_values) ==
  /\ constructed
  /\ IF SizeMismatch(Len(flattened_values), flat_size)
     THEN Rejected("set_flattened_unconstrained_values", Len(flattened_values))
     ELSE /\ node' = SetFlattenedUnconstrainedValues(graph, node, stochastic_nodes,
                                                     flattened_values)
          /\ last' = Called("set_flattened_unconstrained_values", "ok",
                            Len(flattened_values))
          /\ Phase(Mutating)
          /\ UNCHANGED <<graph, constructed, ordered_support, stochastic_nodes,
                         deterministic_nodes, flat_size,
                         stochastic_unconstrained_vals_backup,
                         stochastic_unconstrained_grads_backup, log_prob, hist_unc,
                         hist_grad>>

add_to_stochastic_unconstrained_nodes(increment) ==
  /\ constructed
  /\ IF SizeMismatch(Len(increment), flat_size)
     THEN Rejected("add_to_stochastic_unconstrained_nodes", Len(increment))
     ELSE /\ InRange(VectorAdd(GetFlattenedUnconstrainedValues(graph, node,
                                                               stochastic_nodes, flat_size),
                               increment))
          /\ node' = AddToStochasticUnconstrainedNodes(graph, node, stochastic_nodes,
                                                       flat_size, increment)
          /\ last' = Called("add_to_stochastic_unconstrained_nodes", "ok", Len(increment))
          /\ Phase(Mutating)
          /\ UNCHANGED <<graph, constructed, ordered_support, stochastic_nodes,
                         deterministic_nodes, flat_size,
                         stochastic_unconstrained_vals_backup,
                         stochastic_unconstrained_grads_backup, log_prob, hist_unc,
                         hist_grad>>

\* update_log_prob that re-evaluates the nodes and keeps the cached sum.
update_log_prob_cached ==
  /\ constructed
  /\ node' = EvalDeterministicFrom(graph, ordered_support, node, 1)
  /\ last' = Called("update_log_prob", "ok", 0)
  /\ Phase(Mutating)
  /\ UNCHANGED <<graph, constructed, ordered_support, stochastic_nodes,
                 deterministic_nodes, flat_size, stochastic_unconstrained_vals_backup,
                 stochastic_unconstrained_grads_backup, log_prob, hist_unc, hist_grad>>

update_log_prob ==
  /\ constructed
  /\ log_prob' = FullLogProb(graph, ordered_support, node)
  /\ node' = EvalDeterministicFrom(graph, ordered_support, node, 1)
  /\ last' = Called("update_log_prob", "ok", 0)
  /\ Phase(Mutating)
  /\ UNCHANGED <<graph, constructed, ordered_support, stochastic_nodes,
                 deterministic_nodes, flat_size, stochastic_unconstrained_vals_backup,
                 stochastic_unconstrained_grads_backup, hist_unc, hist_grad>>

update_backgrad ==
  /\ constructed
  /\ node' = UpdateBackgradOf(graph, ordered_support, node)
  /\ last' = Called("update_backgrad", "ok", 0)
  /\ Phase(Mutating)
  /\ UNCHANGED <<graph, constructed, ordered_support, stochastic_nodes,
                 deterministic_nodes, flat_size, stochastic_unconstrained_vals_backup,
                 stochastic_unconstrained_grads_backup, log_prob, hist_unc, hist_grad>>

---------------------------------------------------------------------------
(* The graphs a GlobalState is constructed on. *)

\* A node of each kind the constructor tells apart, over the inputs ins; a node
\* with two inputs or more is given a transform.
KindNode(kind, ins) ==
  LET tr == IF Len(ins) > 1 THEN "LOG" ELSE "NONE"
  IN  CASE kind = "DETERMINISTIC" ->
             GraphNode("OPERATOR", FALSE, ins, FALSE, "NONE", ScalarType)
        [] kind = "LATENT" -> GraphNode("OPERATOR", TRUE, ins, FALSE, tr, ScalarType)
        [] kind = "OBSERVED" -> GraphNode("OPERATOR", TRUE, ins, TRUE, tr, ScalarType)
        [] kind = "FACTOR" -> GraphNode("FACTOR", TRUE, ins, TRUE, "NONE", ScalarType)

\* The nodes that can follow m nodes: a constant, or a node over some of them.
NodesOver(m) ==
  {GraphNode("CONSTANT", FALSE, <<>>, FALSE, "NONE", ScalarType)}
    \cup {KindNode(kind, SetToSortedSeq(I)) :
            kind \in {"DETERMINISTIC", "LATENT", "OBSERVED", "FACTOR"},
            I \in (SUBSET (1..m)) \ {{}}}

RECURSIVE NodeTables(_)
NodeTables(n) ==
  IF n = 0 THEN {<<>>}
  ELSE {Append(t, nd) : t \in NodeTables(n - 1), nd \in NodesOver(n - 1)}

\* Every graph of up to MaxGraphNodes nodes whose inputs are earlier nodes, with no
\* query or one.
EnumeratedGraphs ==
  UNION {{[nodes |-> t, queries |-> q] :
            t \in NodeTables(n), q \in {{}} \cup {{i} : i \in 1..n}} :
         n \in 1..MaxGraphNodes}

---------------------------------------------------------------------------
(* minibmg: nodes, graphs and the consumer index. *)

\* A node: its operator and its inputs (a QueryNode has one, in_node).
MiniNode(op, ins) == [op |-> op, in_nodes |-> ins]

\* QueryNode::in_node
InNode(nd) == nd.in_nodes[1]

\* The inputs a node declares.
DeclaredInputs(nd) ==
  IF nd.op \in {"CONSTANT", "VARIABLE"} THEN <<>>
  ELSE IF nd.op = "QUERY" THEN <<InNode(nd)>>
  ELSE nd.in_nodes

\* The nodes that can follow m nodes: inputs are among those m, and an operator
\* may take the same input twice.
MiniNodesOver(m) ==
  {MiniNode("CONSTANT", <<>>), MiniNode("VARIABLE", <<>>)}
    \cup {MiniNode("QUERY", <<p>>) : p \in 1..m}
    \cup {MiniNode("ADD", <<p, q>>) : p \in 1..m, q \in 1..m}

RECURSIVE MiniNodeTables(_)
MiniNodeTables(n) ==
  IF n = 0 THEN {<<>>}
  ELSE {Append(t, nd) : t \in MiniNodeTables(n - 1), nd \in MiniNodesOver(n - 1)}

\* The Graph of the first k nodes, in their order.
GraphOfFirst(k) == [i \in 1..k |-> i]

\* The Graph of the first k nodes with the last two in the other order.
GraphOfFirstSwapped(k) ==
  [i \in 1..k |-> IF i = k - 1 THEN k ELSE IF i = k THEN k - 1 ELSE i]

\* Two Graph instances: of the same structure, or the second one node shorter, or
\* the second with its last two nodes in the other order.
GraphPairs(n) ==
  {<<GraphOfFirst(k), GraphOfFirst(k)>> : k \in 0..n}
    \cup {<<GraphOfFirst(k), GraphOfFirst(k - 1)>> : k \in 1..n}
    \cup {<<GraphOfFirst(k), GraphOfFirstSwapped(k)>> : k \in 2..n}

\* Every input of a node of the graph g is a node that comes earlier in g.
InputsComeFirst(nodes, g) ==
  \A k \in 1..Len(g) :
    \A p \in 1..Len(DeclaredInputs(nodes[g[k]])) :
      \E j \in 1..(k - 1) : g[j] = DeclaredInputs(nodes[g[k]])[p]

\* std::map::find(node) == end()
NoEntry == [found |-> FALSE, list |-> <<>>]

\* new Out_Nodes_Data{}
EmptyData(nodes) == [threw |-> FALSE, node_map |-> [n \in 1..Len(nodes) |-> NoEntry]]

\* predecessor_out_set.push_front(node)
PushFront(list, consumer) == <<consumer>> \o list

\* A list that keeps one entry per consumer.
PushBackOnce(list, consumer) ==
  IF \E k \in 1..Len(list) : list[k] = consumer THEN list ELSE Append(list, consumer)

\* predecessor_out_set.push_back(node)
PushBack(list, consumer) == Append(list, consumer)

\* for_node that answers the empty list for a node without an entry.
ForNodeOrEmpty(data, n) == [status |-> "ok", result |-> data.node_map[n].list]

\* Out_Nodes_Data::for_node(node)
ForNode(data, n) ==
  IF ~data.node_map[n].found
  THEN [status |-> "invalid_argument", result |-> <<>>]
  ELSE [status |-> "ok", result |-> data.node_map[n].list]

\* data->for_node(in_node).push_back(node); a throw leaves create at once
ForNodePushBack(data, n, consumer) ==
  IF data.threw THEN data
  ELSE IF ForNode(data, n).status # "ok" THEN [data EXCEPT !.threw = TRUE]
  ELSE [data EXCEPT !.node_map[n].list = PushBack(@, consumer)]

\* create: the loop over opnode->in_nodes, from input k on
RECURSIVE PushInputs(_, _, _, _)
PushInputs(data, ins, k, consumer) ==
  IF k > Len(ins) THEN data
  ELSE PushInputs(ForNodePushBack(data, ins[k], consumer), ins, k + 1, consumer)

\* create: the loop over the graph's nodes, from node k on
RECURSIVE CreateFrom(_, _, _, _)
CreateFrom(nodes, g, data, k) ==
  IF k > Len(g) \/ data.threw THEN data
  ELSE LET n == g[k]
           d1 == [data EXCEPT !.node_map[n] = [found |-> TRUE, list |-> <<>>]]
           d2 == IF nodes[n].op \in {"CONSTANT", "VARIABLE"} THEN d1
                 ELSE IF nodes[n].op = "QUERY"
                 THEN ForNodePushBack(d1, InNode(nodes[n]), n)
                 ELSE PushInputs(d1, nodes[n].in_nodes, 1, n)
       IN  CreateFrom(nodes, g, d2, k + 1)

\* Out_Nodes_Property::create(g)
Create(nodes, g) == CreateFrom(nodes, g, EmptyData(nodes), 1)

\* A Graph instance whose property has not been computed.
NoProperty(nodes) == [present |-> FALSE, data |-> EmptyData(nodes)]

\* Out_Nodes_Property::get(graph): the data the graph holds, created on first use
GetProperty(property, nodes, g) ==
  IF property.present THEN property
  ELSE LET data == Create(nodes, g)
       IN  IF data.threw THEN [present |-> FALSE, data |-> data]
           ELSE [present |-> TRUE, data |-> data]

\* No out_nodes call has been made.
NoCall == [graph |-> 0, node |-> 0, status |-> "none", result |-> <<>>]

\* out_nodes that builds the index anew at each call.
out_nodes_recreating(gi, n) ==
  LET data == Create(mini_nodes, mini_graphs[gi])
      answer == IF data.threw
                THEN [status |-> "invalid_argument", result |-> <<>>]
                ELSE ForNode(data, n)
  IN  /\ out_nodes_property' =
           [out_nodes_property EXCEPT ![gi] = [present |-> TRUE, data |-> data]]
      /\ creates' = [creates EXCEPT ![gi] = IF @ = MaxCreates THEN @ ELSE @ + 1]
      /\ out_call' = [graph |-> gi, node |-> n, status |-> answer.status,
                      result |-> answer.result]
      /\ UNCHANGED <<mini_nodes, mini_graphs>>

\* out_nodes(graph, node), graph the instance gi
out_nodes(gi, n) ==
  LET held == out_nodes_property[gi]
      got == GetProperty(held, mini_nodes, mini_graphs[gi])
      answer == IF got.data.threw
                THEN [status |-> "invalid_argument", result |-> <<>>]
                ELSE ForNode(got.data, n)
  IN  /\ out_nodes_property' =
           [out_nodes_property EXCEPT ![gi] = IF got.present THEN got ELSE held]
      /\ creates' = [creates EXCEPT ![gi] =
                       IF held.present \/ @ = MaxCreates THEN @ ELSE @ + 1]
      /\ out_call' = [graph |-> gi, node |-> n, status |-> answer.status,
                      result |-> answer.result]
      /\ UNCHANGED <<mini_nodes, mini_graphs>>

---------------------------------------------------------------------------
(* Specifications. *)

\* A graph is given and no GlobalState has been built on it yet.
InitOn(graphs) ==
  /\ graph \in graphs
  /\ node = InitialNodes(graph)
  /\ constructed = FALSE
  /\ ordered_support = <<>>
  /\ stochastic_nodes = <<>>
  /\ deterministic_nodes = <<>>
  /\ flat_size = 0
  /\ stochastic_unconstrained_vals_backup = <<>>
  /\ stochastic_unconstrained_grads_backup = <<>>
  /\ log_prob = 0
  /\ last = [op |-> "none", status |-> "ok", len |-> 0, rep |-> 1, mutated |-> FALSE]
  /\ hist_unc = <<>>
  /\ hist_grad = <<>>
  /\ txn = "none"
  /\ hist_obs = <<>>
  /\ trail = [prev |-> "none", wrote_nodes |-> FALSE, wrote_backups |-> FALSE]

\* No minibmg node or graph exists.
MiniIdle ==
  /\ mini_nodes = <<>>
  /\ mini_graphs = <<<<>>, <<>>>>
  /\ out_nodes_property = [gi \in 1..2 |-> NoProperty(<<>>)]
  /\ creates = [gi \in 1..2 |-> 0]
  /\ out_call = NoCall

Init == InitOn(SamplerGraphs) /\ MiniIdle

Construct == \E seed \in Seeds : GlobalStateCtor(seed)

SetValues ==
  \E v \in SetInputs(flat_size)
           \cup {GetFlattenedUnconstrainedValues(graph, node, stochastic_nodes, flat_size)} :
     set_flattened_unconstrained_values(v)

AddValues == \E v \in IncrementInputs(flat_size) : add_to_stochastic_unconstrained_nodes(v)

Next ==
  \/ Construct /\ UNCHANGED <<minibmg_vars, trail>>
  \/ backup_unconstrained_values /\ UNCHANGED <<minibmg_vars, trail>>
  \/ backup_unconstrained_grads /\ UNCHANGED <<minibmg_vars, trail>>
  \/ revert_unconstrained_values /\ UNCHANGED <<minibmg_vars, trail>>
  \/ revert_unconstrained_grads /\ UNCHANGED <<minibmg_vars, trail>>
  \/ SetValues /\ UNCHANGED <<minibmg_vars, trail>>
  \/ AddValues /\ UNCHANGED <<minibmg_vars, trail>>
  \/ update_log_prob /\ UNCHANGED <<minibmg_vars, trail>>
  \/ update_backgrad /\ UNCHANGED <<minibmg_vars, trail>>

\* A sampler driving one GlobalState built on one of the sampler graphs.
Spec == Init /\ [][Next]_vars

\* The call being made follows the call recorded in last; it is recorded with
\* whether it changes a field of a node and whether it changes a backup sequence.
Trailed ==
  trail' = [prev |-> last.op,
            wrote_nodes |-> node' # node,
            wrote_backups |->
              \/ stochastic_unconstrained_vals_backup' # stochastic_unconstrained_vals_backup
              \/ stochastic_unconstrained_grads_backup' # stochastic_unconstrained_grads_backup]

\* The sampler sets the values to one of two proposals, or to a vector of a wrong size.
ProposeValues ==
  \E v \in SetInputs(flat_size) \cup {Fill(flat_size, 1)} :
     set_flattened_unconstrained_values(v)

NextTxn ==
  \/ Construct /\ Trailed /\ UNCHANGED minibmg_vars
  \/ backup_unconstrained_values /\ Trailed /\ UNCHANGED minibmg_vars
  \/ backup_unconstrained_grads /\ Trailed /\ UNCHANGED minibmg_vars
  \/ revert_unconstrained_values /\ Trailed /\ UNCHANGED minibmg_vars
  \/ revert_unconstrained_grads /\ Trailed /\ UNCHANGED minibmg_vars
  \/ ProposeValues /\ Trailed /\ UNCHANGED minibmg_vars
  \/ update_log_prob /\ Trailed /\ UNCHANGED minibmg_vars
  \/ update_backgrad /\ Trailed /\ UNCHANGED minibmg_vars

\* A sampler that proposes by setting the values, with the trail of its calls kept.
SpecTxn == Init /\ [][NextTxn]_vars

InitCtor == InitOn(EnumeratedGraphs) /\ MiniIdle

NextCtor == Construct /\ UNCHANGED <<minibmg_vars, trail>>

\* The construction of a GlobalState on each enumerated graph.
SpecCtor == InitCtor /\ [][NextCtor]_vars

\* Nodes are alive and two Graph instances hold some of them; no index exists yet.
InitOut ==
  /\ InitOn({GraphColumn})
  /\ mini_nodes \in MiniNodeTables(MaxMiniNodes)
  /\ mini_graphs \in GraphPairs(MaxMiniNodes)
  /\ \A gi \in 1..2 : InputsComeFirst(mini_nodes, mini_graphs[gi])
  /\ out_nodes_property = [gi \in 1..2 |-> NoProperty(mini_nodes)]
  /\ creates = [gi \in 1..2 |-> 0]
  /\ out_call = NoCall

OutNodes ==
  \E gi \in 1..2, n \in 1..MaxMiniNodes :
    out_nodes(gi, n) /\ UNCHANGED <<gs_vars, hist_vars>>

NextOut == OutNodes

\* Callers asking for the consumers of nodes, of either Graph instance.
SpecOut == InitOut /\ [][NextOut]_vars

---------------------------------------------------------------------------
(* Claims about GlobalState's operations, under Spec. *)

UncOf(n) == GetUnconstrainedValue(graph, node, n)

\* The constrained value of node n is what its transform gives for the node's
\* unconstrained value: the same elements through the inverse transform (the
\* elements themselves when there is no transform), in the same shape.
ValueAgrees(n) ==
  LET u == Elements(UncOf(n))
      identity == graph.nodes[n].transform_type = "NONE"
  IN  /\ Elements(node[n].value) =
           [k \in 1..Len(u) |-> IF identity THEN u[k] ELSE TransformInverse(u[k])]
      /\ node[n].value._matrix.rows = UncOf(n)._matrix.rows
      /\ node[n].value._matrix.cols = UncOf(n)._matrix.cols

FlatNow == GetFlattenedUnconstrainedValues(graph, node, stochastic_nodes, flat_size)

\* C1: after backup_unconstrained_values(), any mutations and
\* revert_unconstrained_values(), every stochastic node's unconstrained value is
\* the one read at the backup, and its constrained value is what the transform
\* gives for it.
C1_RevertRestoresValues ==
  last.op = "revert_unconstrained_values" =>
    \A i \in 1..Len(stochastic_nodes) :
      /\ UncOf(stochastic_nodes[i]) = hist_unc[i]
      /\ ValueAgrees(stochastic_nodes[i])

\* C1 witness: a revert has just run, after a set or an increment that followed
\* the backup, on a node with a transform.
C1_Witness ==
  /\ last.op = "revert_unconstrained_values"
  /\ last.mutated
  /\ \E i \in 1..Len(stochastic_nodes) :
       graph.nodes[stochastic_nodes[i]].transform_type # "NONE"

ObservableNow ==
  Observable(graph, node, stochastic_nodes, deterministic_nodes, log_prob)

\* C2 as claimed: after both backups, any mutations and updates, and both reverts,
\* everything a sampler can observe is as it was when the backups were taken.
C2_NoTrace == txn = "closed" => ObservableNow = hist_obs

\* C2 as amended: after both backups, any mutations and updates, and both reverts,
\* every stochastic node's unconstrained value and gradient are as they were when
\* the backups were taken and its constrained value is what the transform gives
\* for the restored unconstrained value; the deterministic nodes' values and the
\* cached log_prob are not restored.
C2_RevertedState ==
  txn = "closed" =>
    \A i \in 1..Len(stochastic_nodes) :
      /\ UncOf(stochastic_nodes[i]) = hist_obs.unconstrained[i]
      /\ node[stochastic_nodes[i]].back_grad1 = hist_obs.grad[i]
      /\ ValueAgrees(stochastic_nodes[i])

\* C2 witness: both reverts have run after a proposal that changed the values and
\* refreshed log_prob, and log_prob still is the proposal's.
C2_Witness ==
  /\ txn = "closed"
  /\ last.mutated
  /\ log_prob # hist_obs.log_prob

\* C3 as claimed: writing back the vector just read leaves every stochastic node's
\* unconstrained value exactly as it was.
C3_RoundTrip ==
  [][set_flattened_unconstrained_values(FlatNow) =>
       \A i \in 1..Len(stochastic_nodes) :
         GetUnconstrainedValue(graph, node', stochastic_nodes[i])
           = UncOf(stochastic_nodes[i])]_vars

\* C4: a set or an increment given a vector whose length is not flat_size fails
\* with invalid_argument and writes nothing: values, gradients, both backups,
\* flat_size and log_prob are unchanged.
C4_SizeMismatchRejected ==
  [][(/\ last'.op \in {"set_flattened_unconstrained_values",
                       "add_to_stochastic_unconstrained_nodes"}
      /\ last'.len # flat_size)
     => (last'.status = "invalid_argument" /\ UNCHANGED gs_vars)]_vars

\* C4 witness: an increment one element too long has just been rejected.
C4_Witness ==
  /\ last.op = "add_to_stochastic_unconstrained_nodes"
  /\ last.status = "invalid_argument"
  /\ last.len = flat_size + 1
  /\ flat_size > 0

\* Increments the composition is tried with.
CompositionInputs == {Fill(flat_size, 1), Fill(flat_size, 2), Ramp(flat_size)}

\* The increments of a composition: of the right size, from the set above.
ComposeValues ==
  \E v \in CompositionInputs : add_to_stochastic_unconstrained_nodes(v)

NextAdd ==
  \/ Construct /\ UNCHANGED <<minibmg_vars, trail>>
  \/ SetValues /\ UNCHANGED <<minibmg_vars, trail>>
  \/ ComposeValues /\ UNCHANGED <<minibmg_vars, trail>>

\* The sampler that only sets and increments: the runs the composition of
\* increments is about.
SpecAdd == Init /\ [][NextAdd]_vars

\* The flattened vector after the increment v of the nodes ns.
AfterAdd(ns, v) ==
  GetFlattenedUnconstrainedValues(graph,
    AddToStochasticUnconstrainedNodes(graph, ns, stochastic_nodes, flat_size, v),
    stochastic_nodes, flat_size)

\* The nodes after the increment v, as the one-element set of them.
NodesAfterAdd(v) ==
  {AddToStochasticUnconstrainedNodes(graph, node, stochastic_nodes, flat_size, v)}

\* No addition of x + v1 + v2, in either grouping, rounds.
ExactSums(x, v1, v2) ==
  \A j \in 1..Len(x) :
    /\ Round(x[j] + v1[j]) = x[j] + v1[j]
    /\ Round(v1[j] + v2[j]) = v1[j] + v2[j]
    /\ Round(x[j] + v1[j] + v2[j]) = x[j] + v1[j] + v2[j]

\* C5 as claimed: two increments v1 then v2 leave the flattened vector that the
\* single increment v1 + v2 leaves, the starting vector plus v1 plus v2 (each
\* plus a double addition).
C5_Composition ==
  constructed =>
    \A v1 \in CompositionInputs, v2 \in CompositionInputs :
      \A x \in {FlatNow} : \A n1 \in NodesAfterAdd(v1) : \A twice \in {AfterAdd(n1, v2)} :
        /\ twice = AfterAdd(node, VectorAdd(v1, v2))
        /\ twice = [j \in 1..flat_size |-> Round(Round(x[j] + v1[j]) + v2[j])]

\* C5 as amended: two increments v1 then v2 leave, element by element, the
\* starting value plus v1, rounded, plus v2, rounded; that is what the single
\* increment v1 + v2 leaves, and the exact sum, whenever no addition rounds.
C5_RoundedComposition ==
  constructed =>
    \A v1 \in CompositionInputs, v2 \in CompositionInputs :
      \A x \in {FlatNow} : \A n1 \in NodesAfterAdd(v1) : \A twice \in {AfterAdd(n1, v2)} :
        /\ twice = [j \in 1..flat_size |-> Round(Round(x[j] + v1[j]) + v2[j])]
        /\ ExactSums(x, v1, v2) =>
             /\ twice = AfterAdd(node, VectorAdd(v1, v2))
             /\ twice = [j \in 1..flat_size |-> x[j] + v1[j] + v2[j]]

\* C5 witness: two increments have run in a row, and from here two more can be
\* added without rounding.
C5_Witness ==
  /\ last.op = "add_to_stochastic_unconstrained_nodes"
  /\ last.status = "ok"
  /\ last.rep = 2
  /\ \E v \in CompositionInputs : ExactSums(FlatNow, v, v)

\* The offset of stochastic node i in the flattened vector: the element counts of
\* the nodes before it.
RECURSIVE OffsetOf(_)
OffsetOf(i) ==
  IF i = 1 THEN 0
  ELSE OffsetOf(i - 1) + Len(Elements(UncOf(stochastic_nodes[i - 1])))

\* C8: flat_size is the sum over stochastic_nodes of the element counts of the
\* unconstrained values, and the flattened vector has flat_size elements, node i
\* filling the segment of its own width that starts where node i - 1 ends.
C8_FlatSizeConsistent ==
  constructed =>
    /\ flat_size = OffsetOf(Len(stochastic_nodes) + 1)
    /\ Len(FlatNow) = flat_size
    /\ \A j \in 1..Len(FlatNow) : FlatNow[j] # Uninit
    /\ \A i \in 1..Len(stochastic_nodes) :
         LET e == Elements(UncOf(stochastic_nodes[i]))
         IN  \A k \in 1..Len(e) : At(FlatNow, OffsetOf(i) + k - 1) = e[k]

\* C8 witness: shapes scalar, 3-vector, scalar give flat_size 5, after a set.
C8_Witness ==
  /\ last.op = "set_flattened_unconstrained_values"
  /\ last.status = "ok"
  /\ Len(stochastic_nodes) = 3
  /\ flat_size = 5
  /\ Len(Elements(UncOf(stochastic_nodes[2]))) = 3

---------------------------------------------------------------------------
(* Claims about out_nodes, under SpecOut. *)

\* The occurrences of x in the sequence s.
Count(x, s) == Cardinality({k \in 1..Len(s) : s[k] = x})

\* The nodes of the Graph instance gi.
NodesOfGraph(gi) == {mini_graphs[gi][k] : k \in 1..Len(mini_graphs[gi])}

\* C6: when out_nodes(graph, A) returns, every node B of the graph occurs in the
\* list as many times as A occurs in the inputs B declares (twice for an operator
\* that uses A twice), and no node outside the graph occurs in it.
C6_Duality ==
  out_call.status = "ok" =>
    \A B \in 1..Len(mini_nodes) :
      Count(B, out_call.result) =
        IF B \in NodesOfGraph(out_call.graph)
        THEN Count(out_call.node, DeclaredInputs(mini_nodes[B]))
        ELSE 0

\* C6 witness: a returned list names one operator twice and a query once.
C6_Witness ==
  /\ out_call.status = "ok"
  /\ \E B \in NodesOfGraph(out_call.graph) :
       mini_nodes[B].op = "ADD" /\ Count(B, out_call.result) = 2
  /\ \E B \in NodesOfGraph(out_call.graph) :
       mini_nodes[B].op = "QUERY" /\ Count(B, out_call.result) = 1

\* C7: a call of out_nodes(graph, node) fails with invalid_argument exactly when
\* node is no node of graph; a call for a node of the graph that no node of the
\* graph consumes returns the empty list.
C7_NotFoundExactly ==
  out_call.status # "none" =>
    LET present == out_call.node \in NodesOfGraph(out_call.graph)
        consumed == \E B \in NodesOfGraph(out_call.graph) :
                      Count(out_call.node, DeclaredInputs(mini_nodes[B])) > 0
    IN  /\ out_call.status = "invalid_argument" <=> ~present
        /\ out_call.status = "ok" <=> present
        /\ present /\ ~consumed => out_call.result = <<>>

\* C7 witness: a call fails for a node that another Graph instance holds and this
\* one does not, after a call on this instance has succeeded.
C7_Witness ==
  /\ out_call.status = "invalid_argument"
  /\ out_call.graph = 2
  /\ out_call.node \in NodesOfGraph(1) \ NodesOfGraph(2)
  /\ out_nodes_property[2].present
  /\ NodesOfGraph(2) # {}

---------------------------------------------------------------------------
(* Claims about the constructor, under SpecCtor. *)

SupportSet == {ordered_support[k] : k \in 1..Len(ordered_support)}

\* The observed and the queried nodes.
Roots == {n \in NodeIds(graph) : graph.nodes[n].is_observed} \cup graph.queries

\* The positions of node n in the sequence s.
Positions(s, n) == {k \in 1..Len(s) : s[k] = n}

\* C9: after construction ordered_support holds each observed or queried node and
\* each input of a node it holds; every node it holds is observed, queried or an
\* input of a node it holds (so it holds nothing outside the ancestor closure);
\* it holds no node twice; the inputs of each node are at earlier positions.
C9_SupportMinimalOrdered ==
  constructed =>
    /\ Roots \subseteq SupportSet
    /\ \A n \in SupportSet : InputSet(graph, n) \subseteq SupportSet
    /\ \A n \in SupportSet :
         n \in Roots \/ \E m \in SupportSet : n \in InputSet(graph, m)
    /\ \A n \in SupportSet : Cardinality(Positions(ordered_support, n)) = 1
    /\ \A i \in 1..Len(ordered_support) :
         \A p \in InputSet(graph, ordered_support[i]) \cap SupportSet :
           \E j \in 1..(i - 1) : ordered_support[j] = p

\* C9 witness: a constructed state whose support leaves a node of the graph out
\* and holds a queried node together with an input of it that is neither observed
\* nor queried.
C9_Witness ==
  /\ constructed
  /\ SupportSet # NodeIds(graph)
  /\ \E n \in SupportSet \cap graph.queries :
       \E p \in InputSet(graph, n) : p \in SupportSet \ Roots

\* Sequence s lists, once each and in the order of ordered_support, exactly the
\* nodes of the support that satisfy Keep.
IsSubsequenceOf(s, Keep(_)) ==
  /\ \A n \in SupportSet : Cardinality(Positions(s, n)) = IF Keep(n) THEN 1 ELSE 0
  /\ \A k \in 1..Len(s) : s[k] \in SupportSet
  /\ \A i \in 1..Len(s), j \in 1..Len(s) :
       i < j => \A a \in Positions(ordered_support, s[i]),
                   b \in Positions(ordered_support, s[j]) : a < b

\* C10: after construction stochastic_nodes lists the stochastic nodes of the
\* support that are not observed and deterministic_nodes the nodes that are not
\* stochastic, each in support order; no node is in both; an observed stochastic
\* node is in neither; every other node of the support is in exactly one.
C10_Partition ==
  constructed =>
    /\ IsSubsequenceOf(stochastic_nodes,
         LAMBDA n : graph.nodes[n].is_stochastic /\ ~graph.nodes[n].is_observed)
    /\ IsSubsequenceOf(deterministic_nodes, LAMBDA n : ~graph.nodes[n].is_stochastic)
    /\ \A n \in SupportSet :
         LET inSto == Positions(stochastic_nodes, n) # {}
             inDet == Positions(deterministic_nodes, n) # {}
         IN  /\ ~(inSto /\ inDet)
             /\ graph.nodes[n].is_stochastic /\ graph.nodes[n].is_observed
                  => ~inSto /\ ~inDet
             /\ ~(graph.nodes[n].is_stochastic /\ graph.nodes[n].is_observed)
                  => inSto \/ inDet

\* C10 witness: a constructed state whose support holds an observed stochastic
\* node, an unobserved one and a deterministic one.
C10_Witness ==
  /\ constructed
  /\ Len(stochastic_nodes) >= 1
  /\ Len(deterministic_nodes) >= 1
  /\ \E n \in SupportSet : graph.nodes[n].is_stochastic /\ graph.nodes[n].is_observed
  /\ \E n \in SupportSet : graph.nodes[n].node_type = "FACTOR"

---------------------------------------------------------------------------
(* More claims about out_nodes, under SpecOut. *)

\* C11: the index of a Graph instance is created by the first out_nodes call for
\* that instance and by no other call: a step creates the index of instance gi only
\* if it is a call for gi and gi had none (its first run of create), an index once
\* held is never replaced, and create never runs twice for an instance, whether or
\* not another instance has the same structure.
C11_MemoizedPerInstance ==
  [][\A gi \in 1..2 :
       /\ out_nodes_property[gi].present =>
            /\ out_nodes_property'[gi] = out_nodes_property[gi]
            /\ creates'[gi] = creates[gi]
       /\ ~out_nodes_property[gi].present /\ out_call'.graph # gi =>
            /\ ~out_nodes_property'[gi].present
            /\ creates'[gi] = creates[gi]
       /\ ~out_nodes_property[gi].present /\ out_call'.graph = gi =>
            /\ out_nodes_property'[gi].present
            /\ creates[gi] = 0
            /\ creates'[gi] = 1
       /\ creates'[gi] <= 1]_vars

\* C11 witness: two instances of the same structure, not empty, each hold an index
\* created by one run of create of its own, and the last call, for the first
\* instance, came after both were created.
C11_Witness ==
  /\ mini_graphs[1] = mini_graphs[2]
  /\ Len(mini_graphs[1]) = MaxMiniNodes
  /\ out_nodes_property[1].present /\ out_nodes_property[2].present
  /\ creates[1] = 1 /\ creates[2] = 1
  /\ out_call.graph = 1 /\ out_call.status = "ok" /\ out_call.result # <<>>

---------------------------------------------------------------------------
(* Claims about backup and revert, under SpecTxn. *)

\* C12: right after revert_unconstrained_grads() the gradient accumulator of every
\* stochastic node is the one the node held at the last
\* backup_unconstrained_grads(), whatever changed the gradients in between.
C12_RevertRestoresGrads ==
  last.op = "revert_unconstrained_grads" =>
    /\ Len(hist_grad) = Len(stochastic_nodes)
    /\ \A i \in 1..Len(stochastic_nodes) :
         node[stochastic_nodes[i]].back_grad1 = hist_grad[i]

\* C12 witness: a revert of the gradients has just run right after an
\* update_backgrad and changed a node, with values set since the value backup.
C12_Witness ==
  /\ last.op = "revert_unconstrained_grads"
  /\ trail.prev = "update_backgrad"
  /\ trail.wrote_nodes
  /\ last.mutated

---------------------------------------------------------------------------
(* More claims about GlobalState's operations, under Spec. *)

\* Among the nodes ns, the constrained value of node n is what the transform gives
\* for its unconstrained value: the same elements through the inverse transform
\* (the elements themselves when there is no transform), in the same shape.
AgreesIn(ns, n) ==
  LET unc == GetUnconstrainedValue(graph, ns, n)
      u == Elements(unc)
      identity == graph.nodes[n].transform_type = "NONE"
  IN  /\ Elements(ns[n].value) =
           [k \in 1..Len(u) |-> IF identity THEN u[k] ELSE TransformInverse(u[k])]
      /\ ns[n].value.type.variable_type = unc.type.variable_type
      /\ ns[n].value._matrix.rows = unc._matrix.rows
      /\ ns[n].value._matrix.cols = unc._matrix.cols

FlatGradsNow == GetFlattenedUnconstrainedGrads(node, stochastic_nodes, flat_size)

\* The elements of the gradient accumulator of node n, in the form its
\* unconstrained value has.
GradElements(n) ==
  IF UncOf(n).type.variable_type = "SCALAR"
  THEN <<node[n].back_grad1._double>>
  ELSE node[n].back_grad1._matrix.data

C15_LogProbCached ==
  [][/\ constructed /\ last'.op # "update_log_prob" => log_prob' = log_prob
     /\ last'.op = "update_log_prob" =>
          log_prob' = FullLogProb(graph', ordered_support', node')]_vars

\* C15 witness: a set has just changed the values and the cached log_prob is not
\* the joint log-probability of the values now held.
C15_Witness ==
  /\ last.op = "set_flattened_unconstrained_values"
  /\ last.status = "ok"
  /\ log_prob # FullLogProb(graph, ordered_support, node)

\* The rows and columns of the matrix of a value or of a gradient accumulator.
ShapeOf(x) == <<x._matrix.rows, x._matrix.cols>>

\* C16 as claimed: in every constructed state each backup sequence has one slot
\* per stochastic node, slot i holds what was read from stochastic_nodes[i] at the
\* last backup, and slot i has the shape of that node's unconstrained value and of
\* its gradient accumulator.
C16_BackupsAligned ==
  constructed =>
    /\ Len(stochastic_unconstrained_vals_backup) = Len(stochastic_nodes)
    /\ Len(stochastic_unconstrained_grads_backup) = Len(stochastic_nodes)
    /\ stochastic_unconstrained_vals_backup = hist_unc
    /\ stochastic_unconstrained_grads_backup = hist_grad
    /\ \A i \in 1..Len(stochastic_nodes) :
         /\ stochastic_unconstrained_vals_backup[i].type = UncOf(stochastic_nodes[i]).type
         /\ ShapeOf(stochastic_unconstrained_vals_backup[i])
              = ShapeOf(UncOf(stochastic_nodes[i]))
         /\ ShapeOf(stochastic_unconstrained_grads_backup[i])
              = ShapeOf(node[stochastic_nodes[i]].back_grad1)

---------------------------------------------------------------------------
(* A claim about the order of the consumers, under SpecOut. *)

\* The place of node n in the Graph instance gi.
PlaceIn(gi, n) == CHOOSE k \in 1..Len(mini_graphs[gi]) : mini_graphs[gi][k] = n

\* C17: the list out_nodes(graph, N) returns names the consumers of N in the order
\* the graph stores them: an entry never comes before an entry for a node stored
\* earlier in the graph, and the first entry is the first node of the graph that
\* declares N as an input.
C17_ConsumerOrder ==
  out_call.status = "ok" =>
    LET gi == out_call.graph
        r == out_call.result
        users == {k \in 1..Len(mini_graphs[gi]) :
                    Count(out_call.node, DeclaredInputs(mini_nodes[mini_graphs[gi][k]])) > 0}
    IN  /\ \A a \in 1..Len(r), b \in 1..Len(r) :
             a < b => PlaceIn(gi, r[a]) <= PlaceIn(gi, r[b])
        /\ users # {} =>
             /\ r # <<>>
             /\ \A k \in users : PlaceIn(gi, r[1]) <= k

\* C17 witness: a returned list names two different consumers, and the graph
\* stores its nodes in an order that is not the order of their identities.
C17_Witness ==
  /\ out_call.status = "ok"
  /\ out_call.graph = 2
  /\ mini_graphs[2] = GraphOfFirstSwapped(MaxMiniNodes)
  /\ \E a \in 1..Len(out_call.result), b \in 1..Len(out_call.result) :
       out_call.result[a] # out_call.result[b]

---------------------------------------------------------------------------
(* Claims about the state a constructor leaves and about reverts, under SpecTxn. *)

Reverts == {"revert_unconstrained_values", "revert_unconstrained_grads"}

\* The state (g, supp, sto, ns, vals, grads, lp) is one a constructor may leave:
\* the backups hold what the nodes hold, the gradients are those of the gradient
\* pass over the values, and lp is the joint log-probability of the values.
FreshIn(g, supp, sto, ns, vals, grads, lp) ==
  /\ vals = UncNow(g, ns, sto)
  /\ grads = GradNow(ns, sto)
  /\ grads = GradNow(UpdateBackgradOf(g, supp, ns), sto)
  /\ lp = FullLogProb(g, supp, ns)

\* C18: when the constructor returns, each slot of the value backup is the
\* unconstrained value of its node, each slot of the gradient backup is the node's
\* back_grad1 as the gradient pass computes it from the initialized values, and
\* log_prob is the joint log-probability of the values; a revert called right
\* after the constructor, and the other revert called right after that one,
\* changes no unconstrained value and no gradient.
C18_FreshState ==
  [][/\ last'.op = "GlobalState" =>
          FreshIn(graph', ordered_support', stochastic_nodes', node',
                  stochastic_unconstrained_vals_backup',
                  stochastic_unconstrained_grads_backup', log_prob')
     /\ /\ last'.op \in Reverts
        /\ \/ last.op = "GlobalState"
           \/ last.op \in Reverts /\ trail.prev = "GlobalState"
        => /\ UncNow(graph', node', stochastic_nodes') = UncNow(graph, node, stochastic_nodes)
           /\ GradNow(node', stochastic_nodes') = GradNow(node, stochastic_nodes)]_vars

\* C18 witness: both reverts ran right after a constructor that left a gradient
\* other than zero and a log-probability other than zero.
C18_Witness ==
  /\ last.op = "revert_unconstrained_grads"
  /\ trail.prev = "revert_unconstrained_values"
  /\ ~trail.wrote_nodes
  /\ ~last.mutated
  /\ log_prob # 0
  /\ \E i \in 1..Len(stochastic_nodes) : node[stochastic_nodes[i]].back_grad1 # ZeroGrad
  /\ stochastic_unconstrained_grads_backup = GradNow(node, stochastic_nodes)
  /\ stochastic_unconstrained_vals_backup = UncNow(graph, node, stochastic_nodes)

\* The unconstrained values the constructor left in the stochastic nodes.
ConstructedUnc ==
  UncNow(graph,
         InitValues(graph, ordered_support, InitialNodes(graph), 1, 0),
         stochastic_nodes)

\* C19: revert_unconstrained_values() leaves in every stochastic node the
\* unconstrained value the node had at the latest backup_unconstrained_values()
\* (the constructor's when there was none since), and revert_unconstrained_grads()
\* the back_grad1 it had at the latest backup_unconstrained_grads(); a revert
\* called right after the same revert changes no node; a backup called right
\* after the revert of its pair leaves its backup sequence as it was.
C19_LatestSnapshot ==
  [][/\ last'.op = "revert_unconstrained_values" =>
          UncNow(graph', node', stochastic_nodes') = hist_unc'
     /\ last'.op = "revert_unconstrained_grads" =>
          GradNow(node', stochastic_nodes') = hist_grad'
     /\ last'.op \in Reverts /\ last.op = last'.op => node' = node
     /\ last.op = "revert_unconstrained_values" /\ last'.op = "backup_unconstrained_values" =>
          stochastic_unconstrained_vals_backup' = stochastic_unconstrained_vals_backup
     /\ last.op = "revert_unconstrained_grads" /\ last'.op = "backup_unconstrained_grads" =>
          stochastic_unconstrained_grads_backup' = stochastic_unconstrained_grads_backup]_vars

\* C19 witness: a revert of the values wrote a node and brought back a snapshot
\* whose elements are not those the constructor saved.
C19_Witness ==
  /\ last.op = "revert_unconstrained_values"
  /\ trail.wrote_nodes
  /\ UncNow(graph, node, stochastic_nodes) = hist_unc
  /\ \E i \in 1..Len(hist_unc) : Elements(hist_unc[i]) # Elements(ConstructedUnc[i])

Backups == {"backup_unconstrained_values", "backup_unconstrained_grads"}

\* C20: a backup writes no node and not the other backup sequence; a revert of
\* the values writes no back_grad1 and neither backup sequence; a revert of the
\* gradients writes no value, no unconstrained value and neither backup sequence;
\* none of the four writes flat_size, ordered_support, stochastic_nodes or
\* deterministic_nodes.
C20_Frame ==
  [][/\ last'.op \in Backups => node' = node
     /\ last'.op = "backup_unconstrained_values" =>
          stochastic_unconstrained_grads_backup' = stochastic_unconstrained_grads_backup
     /\ last'.op = "backup_unconstrained_grads" =>
          stochastic_unconstrained_vals_backup' = stochastic_unconstrained_vals_backup
     /\ last'.op = "revert_unconstrained_values" =>
          \A n \in DOMAIN node : node'[n].back_grad1 = node[n].back_grad1
     /\ last'.op = "revert_unconstrained_grads" =>
          \A n \in DOMAIN node :
            /\ node'[n].value = node[n].value
            /\ node'[n].unconstrained_value = node[n].unconstrained_value
     /\ last'.op \in Reverts =>
          /\ stochastic_unconstrained_vals_backup' = stochastic_unconstrained_vals_backup
          /\ stochastic_unconstrained_grads_backup' = stochastic_unconstrained_grads_backup
     /\ last'.op \in Backups \cup Reverts =>
          /\ flat_size' = flat_size
          /\ ordered_support' = ordered_support
          /\ stochastic_nodes' = stochastic_nodes
          /\ deterministic_nodes' = deterministic_nodes]_vars

\* C20 witness: a backup of the values wrote its backup sequence while the
\* gradient backup differed from the gradients the nodes hold.
C20_Witness ==
  /\ last.op = "backup_unconstrained_values"
  /\ trail.wrote_backups
  /\ ~trail.wrote_nodes
  /\ stochastic_unconstrained_grads_backup # GradNow(node, stochastic_nodes)
  /\ stochastic_unconstrained_vals_backup = UncNow(graph, node, stochastic_nodes)

====
